---- MODULE Spec2Model ----
(***************************************************************************)
(* Model of common/business_logic.py: the mock-data generator, the         *)
(* snapshot writer and the async lookup/mutation operations.               *)
(*                                                                         *)
(* Encodings.                                                              *)
(*  - A Python string built by an f-string is a tuple of its parts:        *)
(*    f"CUST{i:04d}" is <<"CUST", i>>, f"+65{i:08d}" is <<"+65", i>>,      *)
(*    f"customer{i}@example.com" is <<"customer", i, "@example.com">>.     *)
(*    The empty string is <<>> and None is <<"None">>.                     *)
(*  - A datetime is an integer number of clock ticks; isoformat() turns it *)
(*    into the tuple <<day, hour, tick>>, which orders like the ISO text.  *)
(*  - Money is kept exactly: an unrounded amount is <<c, f>>, c whole      *)
(*    cents plus f units of 10^-9 cent; a rounded amount is whole cents.   *)
(*    Energy is in hundredths of a kWh, a rate in 10^-4 dollars per kWh.   *)
(***************************************************************************)
EXTENDS Integers, Sequences, FiniteSets, TLC

VARIABLES
    phase,      \* "import" before the module body ran, "ready" after line 315
    rnd,        \* what the random module and the clock deliver during generation
    MOCK_DATA,  \* the module-level dataset (a mapping from keys to lists)
    files,      \* names present in the mock_data_outputs directory
    locked,     \* names whose unlink() raises
    tasks       \* the coroutines of the lookup/mutation operations

vars == <<phase, rnd, MOCK_DATA, files, locked, tasks>>

----------------------------------------------------------------------------
(* Bounds of the model *)

\* MOCK_DATA_SIZE["customers"] of common/config.py
NumCustomers == 3
\* MOCK_DATA_SIZE["orders"] of common/config.py
NumOrders == 2
\* resolution of the clock within one hour
TicksPerHour == 2
\* coroutines that can be in flight at once
NumTasks == 1

(* Program constants *)
MonthsBilled == 2
DaysPerBill == 30
DueDays == 21
NoneNum == -1

None == <<"None">>
EmptyStr == <<>>
Truthy(x) == x # None /\ x # EmptyStr

----------------------------------------------------------------------------
(* datetime *)

TicksPerDay == 24 * TicksPerHour

\* timedelta(days=d)
Days(d) == d * TicksPerDay
\* timedelta(hours=h)
Hours(h) == h * TicksPerHour

\* datetime.isoformat()
isoformat(t) ==
    <<t \div TicksPerDay, (t % TicksPerDay) \div TicksPerHour, t % TicksPerHour>>

\* datetime.fromisoformat()
fromisoformat(s) == s[1] * TicksPerDay + s[2] * TicksPerHour + s[3]

\* datetime.hour
HourOf(t) == (t % TicksPerDay) \div TicksPerHour

\* s1 < s2 for two ISO strings (lexicographic order of the text)
StrLess(s1, s2) ==
    \/ s1[1] < s2[1]
    \/ s1[1] = s2[1] /\ s1[2] < s2[2]
    \/ s1[1] = s2[1] /\ s1[2] = s2[2] /\ s1[3] < s2[3]

----------------------------------------------------------------------------
(* exact money arithmetic *)

Giga == 10^9

Norm(c, f) == <<c + f \div Giga, f % Giga>>
Add(a, b) == Norm(a[1] + b[1], a[2] + b[2])
\* x units of 10^-4 cent
FromE4(x) == <<x \div 10000, (x % 10000) * 100000>>
\* x units of 10^-7 cent
FromE7(x) == <<x \div 10000000, (x % 10000000) * 100>>
\* k percent of a (a[2] is a multiple of 100 for every amount built here)
Pct(a, k) ==
    Add(<<(a[1] * k) \div 100, ((a[1] * k) % 100) * 10000000>>,
        Norm(0, (a[2] \div 100) * k))

\* round(x, 2) of an amount. A binary float that prints as ...5 in the third
\* decimal lies just above or just below the tie, so an exact tie rounds
\* either way: `up` is the way this one goes.
Round2(a, up) ==
    IF a[2] * 2 > Giga THEN a[1] + 1
    ELSE IF a[2] * 2 < Giga THEN a[1]
    ELSE IF up THEN a[1] + 1 ELSE a[1]

\* round(n / d, 2) counted in hundredths, for n, d > 0 integers
RoundDiv(n, d, up) ==
    IF (n % d) * 2 > d THEN n \div d + 1
    ELSE IF (n % d) * 2 < d THEN n \div d
    ELSE IF up THEN n \div d + 1 ELSE n \div d

----------------------------------------------------------------------------
(* generate_mock_data *)

CustomerIds == 0 .. NumCustomers - 1

\* one customer record (lines 48-59); d is what random delivers for it
MakeCustomer(i, r, d) ==
    [ id |-> <<"CUST", i>>,
      name |-> <<"Customer ", i>>,
      phone |-> <<"+65", i>>,
      email |-> <<"customer", i, "@example.com">>,
      address |-> d.address,
      joined_date |-> isoformat(r.now - Days(d.joined)),
      preferred_language |-> d.lang,
      account_status |-> "Active" ]

GenCustomers(r) == [ k \in 1 .. NumCustomers |-> MakeCustomer(k - 1, r, r.cust[k]) ]

ContractOwnerByName(customer) == customer.name

\* the customer a contract names (line 74)
ContractOwner(customer) == customer.id

ContractEndCalendar(start_date, term_months) ==
    start_date + Days((term_months * 365) \div 12)

\* end_date (line 70)
ContractEnd(start_date, term_months) == start_date + Days(term_months * 30)

\* one contract record (lines 64-84)
MakeContract(i, customer, r, d) ==
    LET start_date == r.now - Days(d.start_days)
        end_date == ContractEnd(start_date, d.term)
    IN  [ id |-> <<"CONT", i>>,
          customer_id |-> ContractOwner(customer),
          customer_name |-> customer.name,
          start_date |-> isoformat(start_date),
          end_date |-> isoformat(end_date),
          term_months |-> d.term,
          plan_type |-> d.plan,
          rate |-> d.rate,
          status |-> "Active",
          auto_renewal |-> TRUE,
          green_energy_percentage |->
              IF d.plan = "Green Energy Plan" THEN 100 ELSE d.green ]

\* monthly_usage (lines 92-94), in hundredths of a kWh
MonthlyUsage(month, b) == (b.base_usage * (100 + 15 * (month % 2))) \div 100

\* the unrounded charges of a bill (lines 97-118)
Charges(monthly_usage, rate) ==
    LET energy_charge == FromE4(monthly_usage * rate)
        market_support_fee == <<439, 0>>
        power_grid_charge == FromE4(monthly_usage * 484)
        transmission_loss_charge == FromE7(monthly_usage * rate * 4)
        emc_charge == FromE4(monthly_usage * 13)
        pso_charge == FromE4(monthly_usage * 7)
        subtotal == Add(Add(Add(Add(Add(energy_charge, market_support_fee),
                                    power_grid_charge),
                                transmission_loss_charge),
                            emc_charge),
                        pso_charge)
        gst == Pct(subtotal, 8)
    IN  [ energy_charge |-> energy_charge,
          market_support_fee |-> market_support_fee,
          power_grid_charge |-> power_grid_charge,
          transmission_loss_charge |-> transmission_loss_charge,
          emc_charge |-> emc_charge,
          pso_charge |-> pso_charge,
          subtotal |-> subtotal,
          gst |-> gst,
          total_amount |-> Add(subtotal, gst) ]

StoredTotalNoGst(ch, up) == Round2(ch.subtotal, up)

\* total_amount as stored (line 139)
StoredTotal(ch, up) == Round2(ch.total_amount, up)

\* one bill record (lines 120-142); n is len(billing_history)
MakeBill(n, month, contract, customer, bill_date, b) ==
    LET monthly_usage == MonthlyUsage(month, b)
        ch == Charges(monthly_usage, contract.rate)
    IN  [ id |-> <<"BILL", n>>,
          contract_id |-> contract.id,
          customer_id |-> customer.id,
          bill_date |-> isoformat(bill_date),
          due_date |-> isoformat(bill_date + Days(DueDays)),
          billing_period_start |-> isoformat(bill_date - Days(30)),
          billing_period_end |-> isoformat(bill_date),
          usage_kwh |-> monthly_usage,
          charges |->
              [ energy_charge |-> Round2(ch.energy_charge, b.up.part),
                market_support_fee |-> Round2(ch.market_support_fee, b.up.part),
                power_grid_charge |-> Round2(ch.power_grid_charge, b.up.part),
                transmission_loss_charge |->
                    Round2(ch.transmission_loss_charge, b.up.part),
                emc_charge |-> Round2(ch.emc_charge, b.up.part),
                pso_charge |-> Round2(ch.pso_charge, b.up.part),
                subtotal |-> Round2(ch.subtotal, b.up.subtotal),
                gst |-> Round2(ch.gst, b.up.gst) ],
          total_amount |-> StoredTotal(ch, b.up.total),
          status |-> IF month > 0 THEN "Paid" ELSE "Unpaid",
          payment_due |-> isoformat(bill_date + Days(DueDays)) ]

\* one daily usage record (lines 147-169); p and q are the uniform(0.9, 1.1)
\* draws of the day, in percent
MakeUsage(day, monthly_usage, contract, customer, bill_date, p, q, up) ==
    LET peakPlan == contract.plan_type = "Peak/Off-Peak Plan"
        \* 3000 * daily_total = monthly_usage * w / 10
        w == IF peakPlan THEN 7 * p + 3 * q ELSE 10 * p
    IN  [ customer_id |-> customer.id,
          contract_id |-> contract.id,
          date |-> isoformat(bill_date - Days(day)),
          total_kwh |-> RoundDiv(monthly_usage * w, 30000, up),
          peak_kwh |->
              IF peakPlan THEN RoundDiv(monthly_usage * 7 * p, 30000, up)
              ELSE NoneNum,
          off_peak_kwh |->
              IF peakPlan THEN RoundDiv(monthly_usage * 3 * q, 30000, up)
              ELSE NoneNum,
          carbon_offset_kg |->
              RoundDiv(monthly_usage * w * (contract.green_energy_percentage \div 10) * 2,
                       1500000, up) ]

\* the draws of lines 152-157 for one day of a bill
DayDraw(b, day) == IF day % 2 = 0 THEN b.daily.even ELSE b.daily.odd

\* bill_date of a month (line 89): a later reading of the clock than start_date's
BillDate(r, month) == r.now + r.tick - Days(30 * month)

\* the months of a contract that get a bill (lines 88-90)
BilledMonths(r, d) ==
    { month \in 0 .. MonthsBilled - 1 : BillDate(r, month) > r.now - Days(d.start_days) }

\* lines 63-170, for the first n contracts
RECURSIVE GenOrders(_, _, _)
GenOrders(n, r, customers) ==
    IF n = 0
    THEN [ contracts |-> <<>>, billing_history |-> <<>>, usage_data |-> <<>> ]
    ELSE
        LET prev == GenOrders(n - 1, r, customers)
            i == n - 1
            d == r.con[n]
            customer == customers[d.customer + 1]
            contract == MakeContract(i, customer, r, d)
            months == BilledMonths(r, d)
            first == 0 \in months
            bills ==
                (IF first
                 THEN << MakeBill(Len(prev.billing_history), 0, contract, customer,
                                  BillDate(r, 0), d.bill[1]) >>
                 ELSE <<>>)
                \o
                (IF 1 \in months
                 THEN << MakeBill(Len(prev.billing_history) + (IF first THEN 1 ELSE 0),
                                  1, contract, customer, BillDate(r, 1), d.bill[2]) >>
                 ELSE <<>>)
            UsageOf(month) ==
                IF month \in months
                THEN [ k \in 1 .. DaysPerBill |->
                         MakeUsage(k - 1, MonthlyUsage(month, d.bill[month + 1]),
                                   contract, customer, BillDate(r, month),
                                   DayDraw(d.bill[month + 1], k - 1)[1],
                                   DayDraw(d.bill[month + 1], k - 1)[2],
                                   d.bill[month + 1].up.part) ]
                ELSE <<>>
        IN  [ contracts |-> Append(prev.contracts, contract),
              billing_history |-> prev.billing_history \o bills,
              usage_data |-> prev.usage_data \o UsageOf(0) \o UsageOf(1) ]

\* one payment method (lines 175-195); n is len(payment_methods)
MakePayment(n, customer, d) ==
    IF d.type = "Credit Card"
    THEN [ id |-> <<"PAY", n>>, customer_id |-> customer.id, type |-> d.type,
           card_type |-> d.card_type, last_four |-> d.last_four,
           expiry_date |-> d.expiry_date, is_default |-> TRUE ]
    ELSE [ id |-> <<"PAY", n>>, customer_id |-> customer.id, type |-> d.type,
           bank_name |-> d.bank_name, account_last_four |-> d.last_four,
           is_default |-> TRUE ]

GenPayments(r, customers) ==
    [ k \in 1 .. Len(customers) |-> MakePayment(k - 1, customers[k], r.pay[k]) ]

\* the mapping built at lines 299-306. The sample_data view is rendered for
\* display from the five lists and is read by none of the operations; its
\* rendering is not modelled, only its key.
generate_mock_data(r) ==
    LET customers == GenCustomers(r)
        orders == GenOrders(NumOrders, r, customers)
    IN  [ customers |-> customers,
          contracts |-> orders.contracts,
          billing_history |-> orders.billing_history,
          usage_data |-> orders.usage_data,
          payment_methods |-> GenPayments(r, customers),
          sample_data |-> <<>> ]

----------------------------------------------------------------------------
(* save_mock_data and cleanup_mock_data_files *)

\* output_dir.glob("mock_data_*.json")
GlobMatches(name) == name[1] = "mock_data_" /\ name[3] = ".json"

\* f"mock_data_{timestamp}.json" for the clock reading t (lines 19-20)
SnapshotName(t) == <<"mock_data_", t, ".json">>

\* lines 31-35: every matching file is unlinked; a failing unlink is reported
\* and skipped
cleanup_mock_data_files(dir, lck) ==
    { f \in dir : ~ (GlobMatches(f) /\ f \notin lck) }

save_without_cleanup(dir, lck, t) == dir \cup { SnapshotName(t) }

\* lines 12-24: the directory after the call at clock reading t
save_mock_data(dir, lck, t) ==
    cleanup_mock_data_files(dir, lck) \cup { SnapshotName(t) }

----------------------------------------------------------------------------
(* what the random module, the clock and the directory can deliver *)

Up(a, b, c, d) == [ part |-> a, subtotal |-> b, gst |-> c, total |-> d ]

UpChoices == { Up(TRUE, TRUE, TRUE, TRUE), Up(FALSE, FALSE, FALSE, FALSE),
               Up(FALSE, FALSE, FALSE, TRUE), Up(TRUE, TRUE, TRUE, FALSE) }

\* the uniform(0.9, 1.1) draws of the days of a bill, in percent: one pair
\* (peak or total, off-peak) for the even days and one for the odd days
Flat(p) == [ even |-> <<p, p>>, odd |-> <<p, p>> ]
Swing == [ even |-> <<90, 110>>, odd |-> <<110, 95>> ]

BillDraw(base, up, daily) == [ base_usage |-> base, up |-> up, daily |-> daily ]

ConDraw(c, days, term, plan, rate, green, b0, b1) ==
    [ customer |-> c, start_days |-> days, term |-> term, plan |-> plan,
      rate |-> rate, green |-> green, bill |-> <<b0, b1>> ]

PlainBill == BillDraw(50000, Up(TRUE, TRUE, TRUE, TRUE), Flat(100))

\* draws that vary who owns a contract, when it starts and how long it runs
StructDraws ==
    { ConDraw(c, days, term, "Fixed Price Plan", 2500, 20, PlainBill, PlainBill) :
        c \in CustomerIds, days \in {30, 45, 365}, term \in {12, 24} }

UsageChoices == {30000, 30020, 41260, 56300, 67980, 80000}
RateChoices == {1800, 1801, 2417, 2999, 3000}

\* draws that vary the figures of the bills
FigureDraws ==
    { ConDraw(0, 45, 12, "Peak/Off-Peak Plan", rate, 50,
              BillDraw(base, up, Swing), BillDraw(base, up, Flat(90))) :
        rate \in RateChoices, base \in UsageChoices, up \in UpChoices }
    \cup
    { ConDraw(1, 45, 24, "Green Energy Plan", rate, 0,
              BillDraw(80000, Up(FALSE, FALSE, FALSE, FALSE), Flat(110)), PlainBill) :
        rate \in RateChoices }

CustDraws ==
    { [ address |-> <<1, 1, 1, 100000>>, joined |-> 0, lang |-> "English" ],
      [ address |-> <<999, 20, 99, 999999>>, joined |-> 730, lang |-> "Tamil" ] }

PayDraws ==
    { [ type |-> "Credit Card", card_type |-> "Visa", last_four |-> 1000,
        expiry_date |-> <<1, 23>>, bank_name |-> "" ],
      [ type |-> "GIRO", card_type |-> "", last_four |-> 9999,
        expiry_date |-> <<>>, bank_name |-> "DBS" ] }

Noon == Days(20000) + Hours(12)

\* the draws of one run: the first contract draws from Con1 or ConN, the others
\* from ConN
Draws(Nows, Ticks, Cust, Pay, Con1, ConN) ==
    { [ now |-> n, tick |-> k, cust |-> cu, pay |-> pa, con |-> co ] :
        n \in Nows, k \in Ticks,
        cu \in [ 1 .. NumCustomers -> Cust ],
        pa \in [ 1 .. NumCustomers -> Pay ],
        co \in { f \in [ 1 .. NumOrders -> Con1 \cup ConN ] :
                   \A k2 \in 2 .. NumOrders : f[k2] \in ConN } }

OneCust == { CHOOSE d \in CustDraws : d.joined = 0 }
OnePay == { CHOOSE d \in PayDraws : d.type = "GIRO" }


----------------------------------------------------------------------------
(* the lookup/mutation operations; a list comprehension
   [x for x in seq if Keep(x)] is SelectSeq(seq, Keep) *)

Return(v) == [ kind |-> "return", value |-> v ]
Raise(exc) == [ kind |-> "raise", value |-> exc ]
Pending == [ kind |-> "pending", value |-> <<>> ]

get_customer_phone_field(md, phone, email, customer_id) ==
    LET ByPhone(c) == c.phone = phone
        ByEmail(c) == c.phone = email
        ById(c) == c.id = customer_id
        Found(hits) ==
            IF hits # <<>> THEN hits[1] ELSE [ error |-> "Customer not found" ]
    IN  IF Truthy(phone) THEN Found(SelectSeq(md.customers, ByPhone))
        ELSE IF Truthy(email) THEN Found(SelectSeq(md.customers, ByEmail))
        ELSE IF Truthy(customer_id) THEN Found(SelectSeq(md.customers, ById))
        ELSE [ error |-> "No search criteria provided" ]

\* the body of get_customer after its delay (lines 327-342); `hits` are the
\* records the generator of a next(...) yields, None when it yields nothing
get_customer(md, phone, email, customer_id) ==
    LET ByPhone(c) == c.phone = phone
        ByEmail(c) == c.email = email
        ById(c) == c.id = customer_id
        Found(hits) ==
            IF hits # <<>> THEN hits[1] ELSE [ error |-> "Customer not found" ]
    IN  IF Truthy(phone) THEN Found(SelectSeq(md.customers, ByPhone))
        ELSE IF Truthy(email) THEN Found(SelectSeq(md.customers, ByEmail))
        ELSE IF Truthy(customer_id) THEN Found(SelectSeq(md.customers, ById))
        ELSE [ error |-> "No search criteria provided" ]

\* lines 349-352
get_customer_appointments(md, customer_id) ==
    LET Mine(a) == a.customer_id = customer_id
    IN  IF "appointments" \notin DOMAIN md THEN Raise("KeyError")
        ELSE Return([ customer_id |-> customer_id,
                      appointments |-> SelectSeq(md.appointments, Mine) ])

\* lines 359-360
get_customer_contracts(md, customer_id) ==
    LET Mine(c) == c.customer_id = customer_id
    IN  Return([ customer_id |-> customer_id,
                 contracts |-> SelectSeq(md.contracts, Mine) ])

\* lines 367-368
get_customer_billing(md, customer_id) ==
    LET Mine(b) == b.customer_id = customer_id
    IN  Return([ customer_id |-> customer_id,
                 billing_history |-> SelectSeq(md.billing_history, Mine) ])

\* the place each element of a list of dates takes in a stable sort, latest
\* first: one more than the number of elements that come before it
Places(dates) ==
    LET n == Len(dates)
        Before(i, j) ==
            \/ StrLess(dates[j], dates[i])
            \/ dates[i] = dates[j] /\ i < j
    IN  <<>> \o [ i \in 1 .. n |-> Cardinality({ j \in 1 .. n : Before(j, i) }) + 1 ]

Arrange(seq, place) ==
    [ k \in 1 .. Len(seq) |-> seq[CHOOSE i \in 1 .. Len(seq) : place[i] = k] ]

\* list.sort(key=lambda x: x["date"], reverse=True)
SortByDateDesc(seq) ==
    Arrange(seq, Places(<<>> \o [ i \in 1 .. Len(seq) |-> seq[i].date ]))

SliceToAtLeastOne(seq, days) ==
    SubSeq(seq, 1, IF days + 1 < Len(seq) THEN days + 1 ELSE Len(seq))

\* seq[:days]
SliceTo(seq, days) ==
    IF days >= 0
    THEN SubSeq(seq, 1, IF days < Len(seq) THEN days ELSE Len(seq))
    ELSE SubSeq(seq, 1, Len(seq) + days)

\* lines 375-380
get_customer_usage(md, customer_id, days) ==
    LET Mine(u) == u.customer_id = customer_id
    IN  Return([ customer_id |-> customer_id,
                 usage_data |->
                     SliceTo(SortByDateDesc(SelectSeq(md.usage_data, Mine)), days) ])

UsageDataSortedInPlace(md, customer_id, days) == SortByDateDesc(md.usage_data)

\* what get_customer_usage leaves in MOCK_DATA["usage_data"]: the list
\* comprehension of line 375 builds a new list, and that one is sorted
UsageDataAfterLookup(md, customer_id, days) == md.usage_data

\* lines 387-388
get_customer_payment_methods(md, customer_id) ==
    LET Mine(pm) == pm.customer_id = customer_id
    IN  Return([ customer_id |-> customer_id,
                 payment_methods |-> SelectSeq(md.payment_methods, Mine) ])

\* the appointment built at lines 401-411
MakeAppointment(md, customer, customer_id, date, service) ==
    [ id |-> <<"APT", Len(md.appointments)>>,
      customer_id |-> customer_id,
      customer_name |-> customer.name,
      date |-> date,
      service |-> service,
      status |-> "Scheduled",
      location |-> "JTC Summit (near Jurong East MRT Station)",
      notes |-> "" ]

schedule_appointment_unverified(md, customer_id, date, service) ==
    IF "appointments" \notin DOMAIN md
    THEN [ result |-> Raise("KeyError"), data |-> md ]
    ELSE LET appointment ==
                 MakeAppointment(md, [ name |-> "" ], customer_id, date, service)
         IN  [ result |-> Return(appointment),
               data |-> [ md EXCEPT !.appointments = Append(@, appointment) ] ]

\* lines 396-414, after the delay of the inner get_customer: the result and the
\* dataset it leaves
schedule_appointment(md, customer_id, date, service) ==
    LET customer == get_customer(md, None, None, customer_id)
    IN  IF "error" \in DOMAIN customer
        THEN [ result |-> Return(customer), data |-> md ]
        ELSE IF "appointments" \notin DOMAIN md
        THEN [ result |-> Raise("KeyError"), data |-> md ]
        ELSE LET appointment == MakeAppointment(md, customer, customer_id, date, service)
             IN  [ result |-> Return(appointment),
                   data |-> [ md EXCEPT !.appointments = Append(@, appointment) ] ]

\* a string datetime.fromisoformat accepts
IsIso(str) == Len(str) = 3

\* the loop of lines 428-435 from `current` on; slots is the list so far
RECURSIVE SlotLoop(_, _, _, _)
SlotLoop(md, current, end, slots) ==
    IF ~ (current <= end) THEN Return([ available_slots |-> slots ])
    ELSE IF HourOf(current) >= 9 /\ HourOf(current) < 17
    THEN IF "appointments" \notin DOMAIN md THEN Raise("KeyError")
         ELSE LET slot_time == isoformat(current)
                  taken == \E k \in 1 .. Len(md.appointments) :
                               md.appointments[k].date = slot_time
              IN  SlotLoop(md, current + Hours(1), end,
                           IF taken THEN slots ELSE Append(slots, slot_time))
    ELSE SlotLoop(md, current + Hours(1), end, slots)

\* lines 422-437
get_available_appointment_slots(md, start_date, end_date) ==
    IF ~ IsIso(start_date) \/ ~ IsIso(end_date) THEN Raise("ValueError")
    ELSE SlotLoop(md, fromisoformat(start_date), fromisoformat(end_date), <<>>)

----------------------------------------------------------------------------
(* the arguments the callers pass *)

TaskIds == 1 .. NumTasks

\* customer 0 is in every dataset; index NumCustomers is the first that is not
Unknown == NumCustomers

CustId(i) == <<"CUST", i>>
Phone(i) == <<"+65", i>>
Email(i) == <<"customer", i, "@example.com">>

Morning == isoformat(Noon - Hours(3))
Evening == isoformat(Noon + Hours(8))
NextMorning == isoformat(Noon + Hours(21) + 1)

NoArgs ==
    [ phone |-> None, email |-> None, customer_id |-> None, days |-> 30,
      date |-> None, service |-> None, start_date |-> None, end_date |-> None ]

LookupArgs ==
    { [ NoArgs EXCEPT !.phone = Phone(0) ],
      [ NoArgs EXCEPT !.phone = Phone(Unknown) ],
      [ NoArgs EXCEPT !.email = Email(0) ],
      [ NoArgs EXCEPT !.email = Email(Unknown) ],
      [ NoArgs EXCEPT !.customer_id = CustId(0) ],
      [ NoArgs EXCEPT !.customer_id = CustId(Unknown) ],
      [ NoArgs EXCEPT !.customer_id = EmptyStr ],
      [ NoArgs EXCEPT !.phone = Phone(Unknown), !.email = Email(0),
                      !.customer_id = CustId(0) ],
      NoArgs }

IdArgs ==
    { [ NoArgs EXCEPT !.customer_id = CustId(0) ],
      [ NoArgs EXCEPT !.customer_id = CustId(Unknown) ] }

UsageArgs ==
    IdArgs \cup { [ NoArgs EXCEPT !.customer_id = CustId(0), !.days = n ] :
                    n \in {2, 0, -1, 0 - 200, 200} }

ScheduleArgs ==
    { [ NoArgs EXCEPT !.customer_id = c, !.date = Morning, !.service = "Consultation" ] :
        c \in { CustId(0), CustId(Unknown), EmptyStr } }

SlotArgs ==
    { [ NoArgs EXCEPT !.start_date = Morning, !.end_date = Evening ],
      [ NoArgs EXCEPT !.start_date = Evening, !.end_date = NextMorning ],
      [ NoArgs EXCEPT !.start_date = Evening, !.end_date = Morning ],
      [ NoArgs EXCEPT !.start_date = EmptyStr, !.end_date = Evening ] }

ArgsOf(op) ==
    CASE op = "get_customer" -> LookupArgs
      [] op = "get_customer_usage" -> UsageArgs
      [] op = "schedule_appointment" -> ScheduleArgs
      [] op = "get_available_appointment_slots" -> SlotArgs
      [] OTHER -> IdArgs

Operations ==
    { "get_customer", "get_customer_appointments", "get_customer_contracts",
      "get_customer_billing", "get_customer_usage", "get_customer_payment_methods",
      "schedule_appointment", "get_available_appointment_slots" }

IdleTask == [ pc |-> "idle", op |-> "", args |-> NoArgs, result |-> Pending ]

----------------------------------------------------------------------------
(* the state machine *)

\* line 315: the module body builds the dataset and writes the snapshot
Generate ==
    /\ phase = "import"
    /\ phase' = "ready"
    /\ MOCK_DATA' = generate_mock_data(rnd)
    /\ files' = save_mock_data(files, locked, rnd.now + rnd.tick)
    /\ UNCHANGED <<rnd, locked, tasks>>

\* a caller starts an operation: its coroutine runs to `await simulate_delay`
Call(t) ==
    /\ phase = "ready"
    /\ tasks[t].pc \in {"idle", "done"}
    /\ \E op \in Operations : \E a \in ArgsOf(op) :
         tasks' = [ tasks EXCEPT ![t] =
                      [ pc |-> "delay", op |-> op, args |-> a, result |-> Pending ] ]
    /\ UNCHANGED <<phase, rnd, MOCK_DATA, files, locked>>

\* the delay of task t is over and the operation op runs to its return
Finish(t, op, result) ==
    /\ tasks[t].pc = "delay"
    /\ tasks[t].op = op
    /\ tasks' = [ tasks EXCEPT ![t].pc = "done", ![t].result = result ]

GetCustomer(t) ==
    /\ Finish(t, "get_customer",
              Return(get_customer(MOCK_DATA, tasks[t].args.phone, tasks[t].args.email,
                                  tasks[t].args.customer_id)))
    /\ UNCHANGED <<phase, rnd, MOCK_DATA, files, locked>>

GetCustomerAppointments(t) ==
    /\ Finish(t, "get_customer_appointments",
              get_customer_appointments(MOCK_DATA, tasks[t].args.customer_id))
    /\ UNCHANGED <<phase, rnd, MOCK_DATA, files, locked>>

GetCustomerContracts(t) ==
    /\ Finish(t, "get_customer_contracts",
              get_customer_contracts(MOCK_DATA, tasks[t].args.customer_id))
    /\ UNCHANGED <<phase, rnd, MOCK_DATA, files, locked>>

GetCustomerBilling(t) ==
    /\ Finish(t, "get_customer_billing",
              get_customer_billing(MOCK_DATA, tasks[t].args.customer_id))
    /\ UNCHANGED <<phase, rnd, MOCK_DATA, files, locked>>

GetCustomerUsage(t) ==
    /\ Finish(t, "get_customer_usage",
              get_customer_usage(MOCK_DATA, tasks[t].args.customer_id, tasks[t].args.days))
    /\ MOCK_DATA' =
         [ MOCK_DATA EXCEPT !.usage_data =
             UsageDataAfterLookup(MOCK_DATA, tasks[t].args.customer_id, tasks[t].args.days) ]
    /\ UNCHANGED <<phase, rnd, files, locked>>

GetCustomerPaymentMethods(t) ==
    /\ Finish(t, "get_customer_payment_methods",
              get_customer_payment_methods(MOCK_DATA, tasks[t].args.customer_id))
    /\ UNCHANGED <<phase, rnd, MOCK_DATA, files, locked>>

\* line 393 is over: schedule_appointment calls get_customer, which awaits its
\* own delay (line 325)
ScheduleEnterLookup(t) ==
    /\ tasks[t].pc = "delay"
    /\ tasks[t].op = "schedule_appointment"
    /\ tasks' = [ tasks EXCEPT ![t].pc = "lookup_delay" ]
    /\ UNCHANGED <<phase, rnd, MOCK_DATA, files, locked>>

\* lines 327-342 and 397-414 run without another suspension
ScheduleFinish(t) ==
    /\ tasks[t].pc = "lookup_delay"
    /\ LET out == schedule_appointment(MOCK_DATA, tasks[t].args.customer_id,
                                       tasks[t].args.date, tasks[t].args.service)
       IN  /\ tasks' = [ tasks EXCEPT ![t].pc = "done", ![t].result = out.result ]
           /\ MOCK_DATA' = out.data
    /\ UNCHANGED <<phase, rnd, files, locked>>

GetAvailableSlots(t) ==
    /\ Finish(t, "get_available_appointment_slots",
              get_available_appointment_slots(MOCK_DATA, tasks[t].args.start_date,
                                              tasks[t].args.end_date))
    /\ UNCHANGED <<phase, rnd, MOCK_DATA, files, locked>>

Step(t) ==
    \/ Call(t)
    \/ GetCustomer(t)
    \/ GetCustomerAppointments(t)
    \/ GetCustomerContracts(t)
    \/ GetCustomerBilling(t)
    \/ GetCustomerUsage(t)
    \/ GetCustomerPaymentMethods(t)
    \/ ScheduleEnterLookup(t)
    \/ ScheduleFinish(t)
    \/ GetAvailableSlots(t)

Next == Generate \/ \E t \in TaskIds : Step(t)

NextGen == Generate

TypeOK ==
    /\ phase \in {"import", "ready"}
    /\ \A t \in TaskIds : tasks[t].pc \in {"idle", "delay", "lookup_delay", "done"}

\* contracts the operations run on: two owners, one or two bills
OpsCon1 ==
    { ConDraw(c, 45, 12, "Peak/Off-Peak Plan", 2417, 50,
              BillDraw(41260, Up(TRUE, TRUE, TRUE, TRUE), Swing), PlainBill) :
        c \in {0, 1} }
OpsConN ==
    { ConDraw(0, 30, 24, "Fixed Price Plan", 2500, 20, PlainBill, PlainBill) }

NoFiles == {}

InitWith(D, Dirs) ==
    /\ phase = "import"
    /\ rnd \in D
    /\ MOCK_DATA = <<>>
    /\ \E dir \in Dirs : files = dir.files /\ locked = dir.locked
    /\ tasks = [ t \in TaskIds |-> IdleTask ]

EmptyDir == { [ files |-> {}, locked |-> {} ] }

Init == InitWith(Draws({Noon}, {0}, OneCust, OnePay, OpsCon1, OpsConN), EmptyDir)

Spec == Init /\ [][Next]_vars

\* the generator alone, over many draws
InitGen ==
    InitWith(Draws({Noon, Noon + Hours(11) + 1}, {0, 1}, OneCust, PayDraws,
                   StructDraws \cup FigureDraws,
                   { ConDraw(2, 30, 24, "Fixed Price Plan", 1800, 0, PlainBill, PlainBill) }),
             EmptyDir)

SpecGen == InitGen /\ [][NextGen]_vars

\* the snapshot writer alone, over many directories
OldNames ==
    { SnapshotName(Noon - Days(1)), SnapshotName(Noon), SnapshotName(Noon + 1),
      <<"mock_data_", Noon, ".txt">> }

Dirs == { [ files |-> fs, locked |-> lk ] : fs \in SUBSET OldNames, lk \in SUBSET OldNames }

InitSave ==
    InitWith(Draws({Noon, Noon + 1}, {0, 1}, OneCust, OnePay, OpsConN, OpsConN),
             { d \in Dirs : d.locked \subseteq d.files })

SpecSave == InitSave /\ [][NextGen]_vars

----------------------------------------------------------------------------
(* Claims *)

NotFound == [ error |-> "Customer not found" ]
NoCriteria == [ error |-> "No search criteria provided" ]

Ready == phase = "ready"
Done(t, op) == tasks[t].pc = "done" /\ tasks[t].op = op

\* no customer of the dataset has this id
NoSuchCustomer(customer_id) ==
    \A k \in 1 .. Len(MOCK_DATA.customers) : MOCK_DATA.customers[k].id # customer_id

\* C1 as stated: schedule_appointment with a customer_id matching no customer
\* returns {"error": "Customer not found"} and leaves the dataset as generated.
C1_Original ==
    \A t \in TaskIds :
        Done(t, "schedule_appointment") /\ NoSuchCustomer(tasks[t].args.customer_id)
        => /\ tasks[t].result = Return(NotFound)
           /\ MOCK_DATA = generate_mock_data(rnd)

\* C1 amended: schedule_appointment with a customer_id matching no customer
\* returns {"error": "Customer not found"} when the id is a non-empty string and
\* {"error": "No search criteria provided"} when it is empty or None; either way
\* the dataset is left as generated, with no appointment appended.
C1_UnknownCustomer ==
    \A t \in TaskIds :
        Done(t, "schedule_appointment") /\ NoSuchCustomer(tasks[t].args.customer_id)
        => /\ tasks[t].result =
                Return(IF Truthy(tasks[t].args.customer_id) THEN NotFound ELSE NoCriteria)
           /\ MOCK_DATA = generate_mock_data(rnd)

C1_Witness ==
    \E t \in TaskIds :
        /\ Done(t, "schedule_appointment")
        /\ tasks[t].args.customer_id = CustId(Unknown)
        /\ tasks[t].result = Return(NotFound)

LookupKeys == {"phone", "email", "customer_id"}
KeyField(c, key) == IF key = "customer_id" THEN c.id ELSE c[key]

\* C2: get_customer called with exactly one of phone, email, customer_id set to
\* a non-empty value returns the customer whose field equals it when there is
\* one, and {"error": "Customer not found"} when there is none.
C2_GetCustomer ==
    \A t \in TaskIds : \A key \in LookupKeys :
        /\ Done(t, "get_customer")
        /\ Truthy(tasks[t].args[key])
        /\ \A other \in LookupKeys \ {key} : ~ Truthy(tasks[t].args[other])
        => LET hits == { k \in 1 .. Len(MOCK_DATA.customers) :
                           KeyField(MOCK_DATA.customers[k], key) = tasks[t].args[key] }
           IN  /\ tasks[t].result.kind = "return"
               /\ hits # {} =>
                    \E k \in hits : tasks[t].result.value = MOCK_DATA.customers[k]
               /\ hits = {} => tasks[t].result.value = NotFound

C2_Witness ==
    \E t \in TaskIds :
        /\ Done(t, "get_customer")
        /\ tasks[t].args.email = Email(0)
        /\ ~ Truthy(tasks[t].args.phone)
        /\ "email" \in DOMAIN tasks[t].result.value
        /\ tasks[t].result.value.email = Email(0)

\* C3: every operation ends by returning a mapping (a result or one with an
\* `error` key); none ends in an unhandled failure.
C3_NoFatal ==
    \A t \in TaskIds : tasks[t].pc = "done" => tasks[t].result.kind = "return"

Frozen == {"customers", "contracts", "billing_history", "usage_data", "payment_methods"}

IsPrefix(a, b) == Len(a) <= Len(b) /\ SubSeq(b, 1, Len(a)) = a

\* C4: no step after generation changes customers, contracts, billing_history,
\* usage_data or payment_methods, so they stay what generate_mock_data
\* produced; the appointments list only grows at its end, and only when a
\* schedule_appointment returns.
C4_Frame ==
    [][ Ready =>
          /\ \A key \in Frozen : MOCK_DATA'[key] = MOCK_DATA[key]
          /\ DOMAIN MOCK_DATA' = DOMAIN MOCK_DATA
          /\ "appointments" \in DOMAIN MOCK_DATA =>
                /\ IsPrefix(MOCK_DATA.appointments, MOCK_DATA'.appointments)
                /\ MOCK_DATA'.appointments # MOCK_DATA.appointments =>
                      \E t \in TaskIds :
                          /\ tasks[t].op = "schedule_appointment"
                          /\ tasks[t].pc = "lookup_delay"
                          /\ tasks'[t].pc = "done" ]_vars

C4_Witness ==
    \E t \in TaskIds :
        /\ Done(t, "get_customer_usage")
        /\ tasks[t].result.kind = "return"
        /\ Len(tasks[t].result.value.usage_data) = 30
        /\ tasks[t].result.value.usage_data # SubSeq(MOCK_DATA.usage_data, 1, 30)

IdsOf(seq) == { seq[k].id : k \in 1 .. Len(seq) }

\* C5: every contract and payment method names a customer of the customers
\* list, every bill and usage record a contract of the contracts list.
C5_References ==
    Ready =>
        /\ \A k \in 1 .. Len(MOCK_DATA.contracts) :
              MOCK_DATA.contracts[k].customer_id \in IdsOf(MOCK_DATA.customers)
        /\ \A k \in 1 .. Len(MOCK_DATA.payment_methods) :
              MOCK_DATA.payment_methods[k].customer_id \in IdsOf(MOCK_DATA.customers)
        /\ \A k \in 1 .. Len(MOCK_DATA.billing_history) :
              MOCK_DATA.billing_history[k].contract_id \in IdsOf(MOCK_DATA.contracts)
        /\ \A k \in 1 .. Len(MOCK_DATA.usage_data) :
              MOCK_DATA.usage_data[k].contract_id \in IdsOf(MOCK_DATA.contracts)

C5_Witness ==
    /\ Ready
    /\ Len(MOCK_DATA.billing_history) >= 3
    /\ Len(MOCK_DATA.usage_data) >= 3 * DaysPerBill
    /\ MOCK_DATA.contracts[1].customer_id # MOCK_DATA.contracts[2].customer_id
    /\ Len(MOCK_DATA.payment_methods) = NumCustomers

CentGap(bill) == bill.total_amount - (bill.charges.subtotal + bill.charges.gst)

\* C6: for every bill the stored total_amount and the sum of the stored
\* subtotal and gst differ by at most one cent.
C6_TotalWithinCent ==
    Ready =>
        \A k \in 1 .. Len(MOCK_DATA.billing_history) :
            CentGap(MOCK_DATA.billing_history[k]) \in {-1, 0, 1}

C6_Witness ==
    /\ Ready
    /\ \E k \in 1 .. Len(MOCK_DATA.billing_history) :
          CentGap(MOCK_DATA.billing_history[k]) = 1
    /\ \E k \in 1 .. Len(MOCK_DATA.billing_history) :
          CentGap(MOCK_DATA.billing_history[k]) = 0

Snapshots(dir) == { f \in dir : GlobMatches(f) }
Written == SnapshotName(rnd.now + rnd.tick)

\* C7 as stated: when save_mock_data completes the directory holds exactly one
\* mock_data_*.json name, the one just written.
C7_Original == Ready => Snapshots(files) = { Written }

\* C7 amended: when save_mock_data completes the directory holds the snapshot
\* just written and, of the older mock_data_*.json names, exactly those whose
\* deletion failed; other names are untouched.
C7_Pruned ==
    [][ phase = "import" /\ phase' = "ready" =>
          /\ Snapshots(files') = { Written } \cup (Snapshots(files) \cap locked)
          /\ files' \ Snapshots(files') = files \ Snapshots(files) ]_vars

C7_Witness ==
    /\ Ready
    /\ Written \in files
    /\ SnapshotName(Noon - Days(1)) \in files \cap locked
    /\ SnapshotName(Noon + 1) \notin files
    /\ Cardinality(Snapshots(files)) = 2

\* C8: every contract has term_months 12 or 24, and its end_date is its
\* start_date plus term_months * 30 days.
C8_Term ==
    Ready =>
        \A k \in 1 .. Len(MOCK_DATA.contracts) :
            LET c == MOCK_DATA.contracts[k]
            IN  /\ c.term_months \in {12, 24}
                /\ fromisoformat(c.end_date) - fromisoformat(c.start_date)
                     = Days(c.term_months * 30)

C8_Witness ==
    /\ Ready
    /\ \E k \in 1 .. Len(MOCK_DATA.contracts) :
          /\ MOCK_DATA.contracts[k].term_months = 24
          /\ MOCK_DATA.contracts[k].start_date = isoformat(rnd.now - Days(365))
          /\ MOCK_DATA.contracts[k].end_date[3] = 1

\* C9: get_available_appointment_slots with two ISO dates returns slots, each
\* start_date + k hours, not after end_date, at an hour from 9 to 16, and not
\* the date of an appointment in the list.
C9_Slots ==
    \A t \in TaskIds :
        /\ Done(t, "get_available_appointment_slots")
        /\ IsIso(tasks[t].args.start_date)
        /\ IsIso(tasks[t].args.end_date)
        => /\ tasks[t].result.kind = "return"
           /\ LET start == fromisoformat(tasks[t].args.start_date)
                  end == fromisoformat(tasks[t].args.end_date)
                  slots == tasks[t].result.value.available_slots
              IN  \A i \in 1 .. Len(slots) :
                      /\ \E k \in 0 .. (end - start) \div Hours(1) :
                            slots[i] = isoformat(start + Hours(k))
                      /\ HourOf(fromisoformat(slots[i])) \in 9 .. 16
                      /\ "appointments" \in DOMAIN MOCK_DATA =>
                            \A j \in 1 .. Len(MOCK_DATA.appointments) :
                                MOCK_DATA.appointments[j].date # slots[i]

\* C10: each schedule_appointment for an existing customer appends one
\* appointment, and the ids in the list are APT0, APT1, ... in list order.
C10_Appends ==
    /\ \A t \in TaskIds :
          Done(t, "schedule_appointment") /\ ~ NoSuchCustomer(tasks[t].args.customer_id)
          => /\ tasks[t].result.kind = "return"
             /\ "appointments" \in DOMAIN MOCK_DATA
             /\ \E j \in 1 .. Len(MOCK_DATA.appointments) :
                   MOCK_DATA.appointments[j] = tasks[t].result.value
    /\ "appointments" \in DOMAIN MOCK_DATA =>
          \A j \in 1 .. Len(MOCK_DATA.appointments) :
              MOCK_DATA.appointments[j].id = <<"APT", j - 1>>

\* the usage records of a customer in the dataset, and those of a result
UsageOfCustomer(customer_id) ==
    { k \in 1 .. Len(MOCK_DATA.usage_data) :
        MOCK_DATA.usage_data[k].customer_id = customer_id }

\* `got` is `count` of the customer's usage records, latest first, and no
\* record left out is later than one returned
MostRecent(got, customer_id, count) ==
    LET mine == UsageOfCustomer(customer_id)
        kept == { k \in mine : \E i \in 1 .. Len(got) : got[i] = MOCK_DATA.usage_data[k] }
    IN  /\ Len(got) = count
        /\ Cardinality(kept) = count
        /\ \A i \in 1 .. Len(got) : got[i].customer_id = customer_id
        /\ \A i \in 1 .. Len(got) - 1 : ~ StrLess(got[i].date, got[i + 1].date)
        /\ \A k \in mine \ kept : \A i \in 1 .. Len(got) :
              ~ StrLess(got[i].date, MOCK_DATA.usage_data[k].date)

Smaller(a, b) == IF a < b THEN a ELSE b

\* C11 as stated: for every integer days the result of get_customer_usage is
\* the min(days, n) most recent of the customer's n usage records, latest first,
\* so at most `days` records.
C11_Original ==
    \A t \in TaskIds :
        Done(t, "get_customer_usage")
        => /\ tasks[t].result.kind = "return"
           /\ Len(tasks[t].result.value.usage_data) <= tasks[t].args.days
           /\ MostRecent(tasks[t].result.value.usage_data, tasks[t].args.customer_id,
                         Smaller(tasks[t].args.days,
                                 Cardinality(UsageOfCustomer(tasks[t].args.customer_id))))

\* C11 amended: the result of get_customer_usage holds only usage records of
\* the customer, latest first; for days >= 0 they are the min(days, n) most
\* recent of the customer's n records, and for days < 0 the n + days most recent
\* (none when n + days <= 0), that is all but the -days oldest.
C11_Usage ==
    \A t \in TaskIds :
        Done(t, "get_customer_usage")
        => LET n == Cardinality(UsageOfCustomer(tasks[t].args.customer_id))
               days == tasks[t].args.days
           IN  /\ tasks[t].result.kind = "return"
               /\ MostRecent(tasks[t].result.value.usage_data, tasks[t].args.customer_id,
                             IF days >= 0 THEN Smaller(days, n)
                             ELSE IF n + days > 0 THEN n + days ELSE 0)

C11_Witness ==
    \E t \in TaskIds :
        /\ Done(t, "get_customer_usage")
        /\ tasks[t].args.days = 2
        /\ Cardinality(UsageOfCustomer(tasks[t].args.customer_id)) = 3 * DaysPerBill
        /\ Len(tasks[t].result.value.usage_data) = 2
        /\ tasks[t].result.value.usage_data[1].contract_id
             # tasks[t].result.value.usage_data[2].contract_id

====
